---- MODULE Spec2Model ----
(***************************************************************************)
(* The danmaku page: DanmakuManager (the scheduler), DanmakuComment (one   *)
(* floating unit) and App.handleSubmitComment, as a timed state machine.   *)
(*                                                                         *)
(* One action is one browser task: an event handler or timer callback,     *)
(* together with the React render and the effects that its state updates   *)
(* cause.  A value a callback reads from the render that created it (a     *)
(* closure) is stored with the callback; a ref (.current) is read live.    *)
(* Time advances in ticks of TickMs; a timer or animation that is due runs *)
(* before time advances further.                                           *)
(***************************************************************************)
EXTENDS Integers, Sequences, FiniteSets, TLC

\* ---------------------------------------------------------------- bounds
MaxComments == 3      \* rows the store holds at the start
MaxManual == 1        \* window.addDanmaku calls, general specification
MaxHover == 1         \* mouse-enter events, general specification
FloodManual == 12     \* window.addDanmaku calls between two cycles, flood specification
BurstManual == 8      \* window.addDanmaku calls between two cycles, burst specification
BurstComments == 1    \* rows the store holds at the start, burst specification
MaxClicks == 2        \* clicks on a like control, each after a mouse-enter
MaxSubmits == 1       \* submit events of the form
FormSubmits == 2      \* submit events of the form, form specification
LikeComments == 3     \* rows the store holds at the start, like specification
MaxInFlight == 3      \* like operations in flight at the store, store specification
LikeCap == 3          \* stored likes up to which another browser starts a like
MaxLoads == 3         \* changes of the userId prop, reload specification

\* ---------------------------------------------------- program constants
PreDrainMs == 1000
TickMs == PreDrainMs    \* one tick is the shortest delay the program uses
RestartMs == 3000
RestartDrainMs == 1000
AnimationMs == 16000
JitterMs == 1000
MobileBase == 8
MobileSpread == 5
DesktopBase == 20
DesktopSpread == 16
MobilePerBatch == 2
DesktopPerBatch == 3
MobileDelayMinMs == 2500
MobileDelaySpanMs == 3000
DesktopDelayMinMs == 1500
DesktopDelaySpanMs == 2000
SliceKeep == 99
UserIdChanges == 1     \* App sets userId once, in its mount effect
BaseScale == 80        \* getScale's baseScale, in hundredths
ScalePerLike == 2      \* getScale's scalePerLike, in hundredths

NoId == 0             \* a missing objectId (undefined); also commentId null
Null == 0             \* a timer state that was never set
Dead == Null - 1      \* the handle of a timer that has fired or was cleared

\* ------------------------------------------------------------- helpers
Min(a, b) == IF a < b THEN a ELSE b
Max(a, b) == IF a > b THEN a ELSE b

Ticks(ms) == ms \div TickMs

\* The delays Math.random() can give, in whole ticks inside [min, min+span].
DelayChoices(minMs, spanMs) ==
  {d \in 1..Ticks(minMs + spanMs) : d * TickMs >= minMs /\ d * TickMs <= minMs + spanMs}

\* ----------------------------------------------------------------- text
Str(s) == [kind |-> "string", s |-> s]
NullText == [kind |-> "null", s |-> <<>>]
NumberText == [kind |-> "number", s |-> <<>>]

RECURSIVE TrimLeft(_)
TrimLeft(s) ==
  IF s = <<>> THEN <<>>
  ELSE IF Head(s) = " " THEN TrimLeft(Tail(s)) ELSE s

RECURSIVE TrimRight(_)
TrimRight(s) ==
  IF s = <<>> THEN <<>>
  ELSE IF s[Len(s)] = " " THEN TrimRight(SubSeq(s, 1, Len(s) - 1)) ELSE s

\* String.prototype.trim
Trim(s) == TrimRight(TrimLeft(s))

\* text && typeof text === 'string' && text.trim() !== ''
ValidText(text) == text.kind = "string" /\ text.s # <<>> /\ Trim(text.s) # <<>>

\* ------------------------------------------------------------ the store
\* Row k of the store (k = 1 is the oldest).  Rows 1 and 2 are created
\* closer together than the sort's jitter, later rows further apart.
CreatedAtMs(k) == IF k = 1 THEN 0 ELSE IF k = 2 THEN 500 ELSE 500 + (k - 2) * 2000

GoodText(k) == IF k % 2 = 1 THEN Str(<<" ", "a", " ">>) ELSE Str(<<"a">>)

BadText(k) ==
  CASE k % 4 = 1 -> Str(<<" ", " ">>)
    [] k % 4 = 2 -> Str(<<>>)
    [] k % 4 = 3 -> NullText
    [] OTHER -> NumberText

Row(k, good, hasId) ==
  [id |-> IF hasId THEN k ELSE NoId,
   text |-> IF good THEN GoodText(k) ELSE BadText(k),
   createdAt |-> CreatedAtMs(k),
   likesCount |-> (k + 1) % 2]

\* The store's rows, most recent first (trickleListObjects(..., true)); only
\* the oldest row may lack its objectId.
Stores(n) ==
  {[i \in 1..n |-> Row(n + 1 - i, g[n + 1 - i], (n + 1 - i) # 1 \/ hasId)] :
     g \in [1..n -> BOOLEAN], hasId \in BOOLEAN}

\* --------------------------------------------------------------- state
VARIABLES
  mounted,           \* DanmakuManager is mounted
  comments,          \* DanmakuManager's comments state
  activeDanmaku,     \* the active pool, a sequence of {id, text, commentId, likesCount}
  playedCommentIds,  \* the played set
  autoPlayTimer,     \* state: handle of the last pre-drain timer
  restartTimer,      \* state: handle of the last restart timer
  isProcessing,      \* isProcessingRef.current
  isRestarting,      \* isRestartingRef.current
  cleanup,           \* the cleanup the auto-play effect returned last
  timers,            \* pending setTimeout callbacks with what they captured
  unit,              \* DanmakuComment instances by display id
  isMobile,          \* window.innerWidth < 768
  hovered,           \* display id under the pointer, or 0
  hoverLeft, manualLeft, loadsLeft, clicksLeft, submitsLeft,
  loadPending,       \* trickleListObjects calls in flight
  store,             \* the object store's rows, most recent first
  userId,            \* App's userId is set
  appComments,       \* App's comments state
  inputValue,        \* App's inputValue state
  loading,           \* App's loading state
  createPending,     \* the text of the trickleCreateObject call in flight
  inFlight,          \* the trickleCreateObject calls that have not settled
  blockedSubmit,     \* a submit event arrived while a create call was in flight
  likedStorage,      \* localStorage 'liked_danmaku', a list of ids
  likeRequests,      \* onLike calls forwarded so far, by comment id
  likeOps,           \* DanmakuManager.handleLike calls in flight
  relCount,          \* releases of each comment id since PlayedSet was last empty
  nSet,              \* setComments calls of DanmakuManager so far
  lateCallbacks,     \* a timer callback of DanmakuManager ran after unmount
  lateCompletes,     \* an onComplete ran for a unit that was torn down
  overCap,           \* a playNextBatch run left more entries than the maxConcurrent it drew
  overRelease,       \* a playNextBatch run released more than maxConcurrent less the entries then active
  wrongBatch,        \* a playNextBatch run released another number than min(room in the pool, list, per-run cap)
  rejectInFlight,    \* a list call rejected while a timer of DanmakuManager was pending
  lastManual,        \* the text of the latest window.addDanmaku call
  onCompleteCalls    \* the most onComplete calls any one unit has made

schedVars == <<mounted, comments, activeDanmaku, playedCommentIds, autoPlayTimer,
               restartTimer, isProcessing, isRestarting, cleanup, timers, unit>>
envVars == <<isMobile, hovered, hoverLeft, manualLeft, loadsLeft, clicksLeft,
             submitsLeft, loadPending>>
appVars == <<store, userId, appComments, inputValue, loading, createPending,
             inFlight, blockedSubmit>>
likeVars == <<likedStorage, likeRequests, likeOps>>
ghostVars == <<relCount, nSet, lateCallbacks, lateCompletes, overCap, onCompleteCalls,
               overRelease, wrongBatch, rejectInFlight, lastManual>>
vars == <<schedVars, envVars, appVars, likeVars, ghostVars>>

NoCleanup == [on |-> FALSE, timer |-> Null, rTimer |-> Null]
NoText == [kind |-> "none", s |-> <<>>]

Ids(pool) == {pool[i].id : i \in 1..Len(pool)}
Handles(ts) == {t.h : t \in ts}
CommentIds(cs) == {cs[i].id : i \in 1..Len(cs)}
AllIds == 0..(MaxComments + Max(MaxSubmits, FormSubmits))

RECURSIVE Least(_, _)
Least(n, used) == IF n \in used THEN Least(n + 1, used) ELSE n

\* setTimeout's return value: a handle no pending timer has
FreshHandle(ts) == Least(1, Handles(ts) \cup Handles(timers))

InitCommon ==
  /\ mounted = TRUE
  /\ comments = <<>>
  /\ activeDanmaku = <<>>
  /\ playedCommentIds = {}
  /\ autoPlayTimer = Null
  /\ restartTimer = Null
  /\ isProcessing = FALSE
  /\ isRestarting = FALSE
  /\ cleanup = NoCleanup
  /\ timers = {}
  /\ unit = <<>>
  /\ isMobile \in BOOLEAN
  /\ hovered = 0
  /\ loadPending = 0
  /\ userId = FALSE
  /\ appComments = <<>>
  /\ inputValue = Str(<<>>)
  /\ loading = FALSE
  /\ createPending = NoText
  /\ inFlight = 0
  /\ blockedSubmit = FALSE
  /\ likedStorage = <<>>
  /\ likeRequests = [c \in AllIds |-> 0]
  /\ likeOps = <<>>
  /\ relCount = [c \in AllIds |-> 0]
  /\ nSet = 0
  /\ lateCallbacks = FALSE
  /\ lateCompletes = FALSE
  /\ overCap = FALSE
  /\ overRelease = FALSE
  /\ wrongBatch = FALSE
  /\ rejectInFlight = FALSE
  /\ lastManual = NoText
  /\ onCompleteCalls = 0

\* ----------------------------------------------------- sort with jitter
\* comments.filter(...) of the auto-play effect
NewComments(cs, played) ==
  LET Keep(c) == c.id \notin played /\ ValidText(c.text) IN SelectSeq(cs, Keep)

\* comments.filter(...) of the restart effect
AllComments(cs) ==
  LET Keep(c) == ValidText(c.text) IN SelectSeq(cs, Keep)

\* The comparator timeSort + randomFactor can put a before b when it can be
\* negative: randomFactor ranges over [-JitterMs, JitterMs).
CanPrecede(a, b) == a.createdAt - b.createdAt < JitterMs

Perms(n) == {f \in [1..n -> 1..n] : \A i, j \in 1..n : i # j => f[i] # f[j]}

\* The orders .sort(comparator) can leave: every adjacent pair is one the
\* comparator can have answered that way.
JitterOrders(cs) ==
  {[i \in 1..Len(cs) |-> cs[f[i]]] : f \in
     {g \in Perms(Len(cs)) : \A i \in 1..(Len(cs) - 1) : CanPrecede(cs[g[i]], cs[g[i + 1]])}}

\* ------------------------------------------------------- timer handles
NormRef(r, ts) == IF r > 0 /\ r \notin Handles(ts) THEN Dead ELSE r
NormCleanup(c, ts) == [c EXCEPT !.timer = NormRef(@, ts), !.rTimer = NormRef(@, ts)]
NormUnits(us, ts) == [id \in DOMAIN us |-> [us[id] EXCEPT !.rTimer = NormRef(@, ts)]]

\* clearTimeout(h)
ClearTimeout(ts, h) == {t \in ts : t.h # h}

Timer(h, kind, ms, list, stale, origin) ==
  [h |-> h, kind |-> kind, t |-> Ticks(ms), list |-> list, stale |-> stale, origin |-> origin]

\* -------------------------------------------------------------- effects
\* The cleanup of the auto-play effect.
RunCleanup(c, ts, proc, rest) ==
  IF ~c.on THEN [timers |-> ts, isProcessing |-> proc, isRestarting |-> rest]
  ELSE [timers |-> IF c.rTimer # Null
                   THEN ClearTimeout(ClearTimeout(ts, c.timer), c.rTimer)
                   ELSE ClearTimeout(ts, c.timer),
        isProcessing |-> FALSE,
        isRestarting |-> IF c.rTimer # Null THEN FALSE ELSE rest]

\* The body of the auto-play effect, run for a render with comments cs,
\* played set played, nActive active entries and timer states apt and rt.
AutoPlayEffect(cs, played, nActive, apt, rt, ts, proc, rest) ==
  IF proc \/ rest \/ Len(cs) = 0 \/ Len(NewComments(cs, played)) = 0
  THEN {[timers |-> ts, isProcessing |-> proc, isRestarting |-> rest,
         autoPlayTimer |-> apt, cleanup |-> NoCleanup]}
  ELSE {[timers |-> ClearTimeout(ts, apt) \cup
                    {Timer(FreshHandle(ts), "auto", PreDrainMs, ord, nActive, "normal")},
         isProcessing |-> TRUE,
         isRestarting |-> rest,
         autoPlayTimer |-> FreshHandle(ts),
         cleanup |-> [on |-> TRUE, timer |-> FreshHandle(ts), rTimer |-> rt]] :
        ord \in JitterOrders(NewComments(cs, played))}

\* The body of the restart effect.
RestartEffect(cs, played, nActive, ts, proc, rest) ==
  IF Cardinality(played) = 0 /\ Len(cs) > 0 /\ ~proc /\ rest
  THEN IF Len(AllComments(cs)) > 0
       THEN {[timers |-> ts \cup
                {Timer(FreshHandle(ts), "rdrain", RestartDrainMs, ord, nActive, "restart")},
              isProcessing |-> TRUE, isRestarting |-> FALSE] :
             ord \in JitterOrders(AllComments(cs))}
       ELSE {[timers |-> ts, isProcessing |-> proc, isRestarting |-> FALSE]}
  ELSE {[timers |-> ts, isProcessing |-> proc, isRestarting |-> rest]}

\* --------------------------------------------------------------- units
\* addDanmaku(text, commentData): the pool with the new entry, or unchanged.
\* The entries are numbered 1, 2, ... in the field id, which also names the
\* entry's DanmakuComment instance.  The number Date.now() + Math.random()
\* is modelled by that number, unless sameIdAs names an entry added in the
\* same millisecond for which the sum gave the very same double: then the
\* program's id of both entries is the id of that entry.
AddDanmakuNoGuard(pool, text, c) ==
  Append(pool, [id |-> Least(1, Ids(pool)), text |-> Trim(text.s),
                commentId |-> c.id, likesCount |-> c.likesCount, sameIdAs |-> Null])
AddDanmaku(pool, text, c) ==
  IF ~ValidText(text) THEN pool
  ELSE Append(pool, [id |-> Least(1, Ids(pool)), text |-> Trim(text.s),
                     commentId |-> c.id, likesCount |-> c.likesCount, sameIdAs |-> Null])

\* The value of the program's id field of entry e
IdOf(e) == IF e.sameIdAs = Null THEN e.id ELSE e.sameIdAs

\* commentData = null of a manual injection
NoComment == [id |-> NoId, text |-> NoText, createdAt |-> 0, likesCount |-> 0]

SeqToSet(q) == {q[i] : i \in 1..Len(q)}

\* getScale(likes), in hundredths
GetScaleCapped(likes) == Min(BaseScale + 10 * ScalePerLike, BaseScale + likes * ScalePerLike)
GetScale(likes) == BaseScale + likes * ScalePerLike

\* A DanmakuComment instance at mount, with what its onComplete captured from
\* the render that mounted it.
Mount(e, cs, played, rt, liked) ==
  [cLen |-> Len(cs), pSize |-> Cardinality(played), rTimer |-> rt,
   left |-> Ticks(AnimationMs), anim |-> "running", isHovered |-> FALSE,
   isLiked |-> e.commentId # NoId /\ e.commentId \in SeqToSet(liked),
   currentLikes |-> e.likesCount, currentScale |-> GetScale(e.likesCount), done |-> 0]

\* The instances after a render: kept for the entries that stay, mounted for new ones.
Rendered(pool, cs, played, rt, liked) ==
  [id \in Ids(pool) |->
     IF id \in DOMAIN unit THEN unit[id]
     ELSE Mount(CHOOSE e \in SeqToSet(pool) : e.id = id, cs, played, rt, liked)]

\* Web Animations: pause() and play() of the unit's one animation.  play()
\* on an animation that is at its end starts it again from the beginning.
Pause(u) ==
  CASE u.anim = "running" -> [u EXCEPT !.anim = "paused"]
    [] u.anim = "finished" -> [u EXCEPT !.anim = "paused"]
    [] u.anim = "idle" -> [u EXCEPT !.anim = "paused", !.left = Ticks(AnimationMs)]
    [] OTHER -> u

PlayFromStart(u) == [u EXCEPT !.anim = "running", !.left = Ticks(AnimationMs)]
Play(u) ==
  CASE u.anim = "paused" /\ u.left > 0 -> [u EXCEPT !.anim = "running"]
    [] u.anim = "paused" /\ u.left = 0 -> [u EXCEPT !.anim = "running", !.left = Ticks(AnimationMs)]
    [] u.anim = "finished" -> [u EXCEPT !.anim = "running", !.left = Ticks(AnimationMs)]
    [] u.anim = "idle" -> [u EXCEPT !.anim = "running", !.left = Ticks(AnimationMs)]
    [] OTHER -> u

\* The cleanup of the unit's animation effect: animation.cancel()
CancelNothing(u) == u
CancelAnimation(u) == [u EXCEPT !.anim = "idle"]

\* ------------------------------------------------------- playNextBatch
PerBatchCap == IF isMobile THEN MobilePerBatch ELSE DesktopPerBatch

MaxConcurrentChoices ==
  IF isMobile THEN MobileBase..(MobileBase + MobileSpread - 1)
  ELSE DesktopBase..(DesktopBase + DesktopSpread - 1)

BatchDelays ==
  IF isMobile THEN DelayChoices(MobileDelayMinMs, MobileDelaySpanMs)
  ELSE DelayChoices(DesktopDelayMinMs, DesktopDelaySpanMs)

\* currentActive is activeDanmaku.length of the render that created the
\* callback, not of the moment the callback runs.
CanAdd(mc, currentActive) == Max(0, mc - currentActive)
ToPlayNow(mc, currentActive, n) == Min(Min(CanAdd(mc, currentActive), n), PerBatchCap)

RECURSIVE Released(_, _, _)
Released(pool, list, k) ==
  IF k = 0 THEN pool
  ELSE AddDanmaku(Released(pool, list, k - 1), list[k].text, list[k])

\* The pool after a run in which Date.now() + Math.random() gave the second
\* new entry the number it gave the first: at 1.7e12 a double has 12 bits
\* left for the fraction, and both calls run in the same millisecond.
Clashed(pool, released) ==
  IF Len(released) >= Len(pool) + 2
  THEN [released EXCEPT ![Len(pool) + 2].sameIdAs = released[Len(pool) + 1].id]
  ELSE released

MarkedOnly(played, list, k) == {list[i].id : i \in 1..k}
MarkedPlayed(played, list, k) == played \cup {list[i].id : i \in 1..k}

Counted(rc, list, k) ==
  [c \in AllIds |->
     IF \E i \in 1..k : list[i].id = c /\ ValidText(list[i].text)
     THEN Min(2, rc[c] + 1) ELSE rc[c]]

\* playNextBatch(tm.list) run by timer tm, with the draws mc (maxConcurrent)
\* and d (randomDelay) and with or without a clash of the ids drawn in
\* addDanmaku; the continuation keeps the closure of tm.
PlayNextBatchIds(tm, mc, d, clash) ==
  LET k == ToPlayNow(mc, tm.stale, Len(tm.list))
      remaining == SubSeq(tm.list, k + 1, Len(tm.list))
      kept == timers \ {tm}
      ts == IF Len(remaining) > 0
            THEN kept \cup {[h |-> IF tm.kind = "batch" THEN tm.h ELSE FreshHandle(kept),
                             kind |-> "batch", t |-> d, list |-> remaining,
                             stale |-> tm.stale, origin |-> tm.origin]}
            ELSE kept
      released == Released(activeDanmaku, tm.list, k)
      pool == IF clash THEN Clashed(activeDanmaku, released) ELSE released
      played == MarkedPlayed(playedCommentIds, tm.list, k)
  IN /\ timers' = ts
     /\ autoPlayTimer' = NormRef(autoPlayTimer, ts)
     /\ cleanup' = NormCleanup(cleanup, ts)
     /\ IF mounted
        THEN /\ activeDanmaku' = pool
             /\ playedCommentIds' = played
             /\ unit' = Rendered(pool, comments, played, restartTimer, likedStorage)
             /\ relCount' = Counted(relCount, tm.list, k)
             /\ overCap' = (overCap \/ Len(pool) > mc)
             /\ overRelease' = (overRelease \/ k > Max(0, mc - Len(activeDanmaku)))
             /\ wrongBatch' = (wrongBatch \/ k # ToPlayNow(mc, Len(activeDanmaku), Len(tm.list)))
             /\ UNCHANGED lateCallbacks
        ELSE /\ UNCHANGED <<activeDanmaku, playedCommentIds, unit, relCount, overCap, overRelease, wrongBatch>>
             /\ lateCallbacks' = TRUE
     /\ UNCHANGED <<mounted, comments, restartTimer, isRestarting>>
     /\ UNCHANGED <<envVars, appVars, likeVars, nSet, lateCompletes, onCompleteCalls,
                   rejectInFlight, lastManual>>

\* The 1 s timer of the auto-play effect and of the restart effect.
PlayNextBatch(tm, mc, d) == PlayNextBatchIds(tm, mc, d, FALSE)

DrainTimerFire ==
  \E tm \in timers : \E mc \in MaxConcurrentChoices : \E d \in BatchDelays :
    /\ tm.kind \in {"auto", "rdrain"} /\ tm.t = 0
    /\ PlayNextBatch(tm, mc, d)
    /\ isProcessing' = FALSE

\* The same callback in a run whose first two ids are the same number.
DrainTimerClash ==
  \E tm \in timers : \E mc \in MaxConcurrentChoices : \E d \in BatchDelays :
    /\ tm.kind \in {"auto", "rdrain"} /\ tm.t = 0
    /\ mounted /\ ToPlayNow(mc, tm.stale, Len(tm.list)) >= 2
    /\ PlayNextBatchIds(tm, mc, d, TRUE)
    /\ isProcessing' = FALSE

\* The continuation timer of playNextBatch.
BatchTimerFire ==
  \E tm \in timers : \E mc \in MaxConcurrentChoices : \E d \in BatchDelays :
    /\ tm.kind = "batch" /\ tm.t = 0
    /\ PlayNextBatch(tm, mc, d)
    /\ UNCHANGED isProcessing

\* ------------------------------------------------------- removeDanmaku
\* prev.filter(item => item.id !== id), id being the program's id of the
\* entry whose instance called onComplete
RemoveDanmaku(pool, id) ==
  LET gone == {IdOf(e) : e \in {x \in SeqToSet(pool) : x.id = id}}
      Keep(e) == IdOf(e) \notin gone
  IN SelectSeq(pool, Keep)

\* The restart condition of removeDanmaku: u holds comments.length and
\* playedCommentIds.size of the render that mounted the unit.
ShouldRestart(updated, u, rest) ==
  Len(updated) = 0 /\ u.cLen > 0 /\ u.pSize >= u.cLen /\ ~rest

\* Units whose traversal ends in the same tick finish in the order they were
\* mounted, which is their order in the pool.
IsDue(id) == unit[id].anim = "running" /\ unit[id].left = 0
MountedBefore(a, b) ==
  \E i, j \in 1..Len(activeDanmaku) :
    i < j /\ activeDanmaku[i].id = a /\ activeDanmaku[j].id = b

\* animation.onfinish of unit id: onComplete, which is removeDanmaku(id) of
\* the render that mounted the unit.
AnimationFinish(id) ==
  /\ id \in DOMAIN unit
  /\ IsDue(id) /\ \A other \in DOMAIN unit : IsDue(other) => ~MountedBefore(other, id)
  /\ onCompleteCalls' = Max(onCompleteCalls, unit[id].done + 1)
  /\ lateCompletes' = (lateCompletes \/ ~mounted)
  /\ LET u == [unit[id] EXCEPT !.anim = "finished", !.done = Min(2, @ + 1)]
         updated == RemoveDanmaku(activeDanmaku, id)
         arm == ShouldRestart(updated, u, isRestarting)
         cleared == IF arm /\ u.rTimer # Null THEN ClearTimeout(timers, u.rTimer) ELSE timers
         ts == IF arm
               THEN cleared \cup {Timer(FreshHandle(cleared), "restart", RestartMs, <<>>, 0, "restart")}
               ELSE cleared
     IN IF mounted
        THEN /\ activeDanmaku' = updated
             /\ timers' = ts
             /\ isRestarting' = (isRestarting \/ arm)
             /\ restartTimer' = IF arm THEN FreshHandle(cleared) ELSE restartTimer
             /\ cleanup' = NormCleanup(cleanup, ts)
             /\ unit' = NormUnits([i \in Ids(updated) |-> IF i = id THEN u ELSE unit[i]], ts)
             /\ hovered' = IF hovered \in Ids(updated) THEN hovered ELSE 0
        ELSE /\ unit' = [unit EXCEPT ![id] = u]
             /\ UNCHANGED <<activeDanmaku, timers, isRestarting, restartTimer, cleanup, hovered>>
  /\ UNCHANGED <<mounted, comments, playedCommentIds, autoPlayTimer, isProcessing>>
  /\ UNCHANGED <<isMobile, hoverLeft, manualLeft, loadsLeft, clicksLeft, submitsLeft, loadPending>>
  /\ UNCHANGED <<appVars, likeVars, relCount, nSet, lateCallbacks, overCap,
                 overRelease, wrongBatch, rejectInFlight, lastManual>>

UnitComplete == \E id \in DOMAIN unit : AnimationFinish(id)

\* The 3 s timer of removeDanmaku: setPlayedCommentIds(new Set()), then the
\* render runs the restart effect when playedCommentIds.size changed.
RestartTimerFire ==
  \E tm \in timers :
    /\ tm.kind = "restart" /\ tm.t = 0
    /\ IF mounted
       THEN \E r \in (IF Cardinality(playedCommentIds) # 0
                      THEN RestartEffect(comments, {}, Len(activeDanmaku),
                                         timers \ {tm}, FALSE, isRestarting)
                      ELSE {[timers |-> timers \ {tm}, isProcessing |-> FALSE,
                             isRestarting |-> isRestarting]}) :
              /\ playedCommentIds' = {}
              /\ relCount' = [c \in AllIds |-> 0]
              /\ timers' = r.timers
              /\ isProcessing' = r.isProcessing
              /\ isRestarting' = r.isRestarting
              /\ restartTimer' = NormRef(restartTimer, r.timers)
              /\ cleanup' = NormCleanup(cleanup, r.timers)
              /\ unit' = NormUnits(unit, r.timers)
              /\ UNCHANGED lateCallbacks
       ELSE /\ timers' = timers \ {tm}
            /\ isProcessing' = FALSE
            /\ lateCallbacks' = TRUE
            /\ restartTimer' = NormRef(restartTimer, timers')
            /\ cleanup' = NormCleanup(cleanup, timers')
            /\ unit' = NormUnits(unit, timers')
            /\ UNCHANGED <<playedCommentIds, relCount, isRestarting>>
    /\ UNCHANGED <<mounted, comments, activeDanmaku, autoPlayTimer>>
    /\ UNCHANGED <<envVars, appVars, likeVars, nSet, lateCompletes, overCap, onCompleteCalls,
                   overRelease, wrongBatch, rejectInFlight, lastManual>>

\* ------------------------------------------------------- loadComments
\* The effect on [userId]: a change of userId to a set value calls loadComments.
UserIdChange ==
  /\ mounted /\ loadsLeft > 0
  /\ loadsLeft' = loadsLeft - 1
  /\ loadPending' = loadPending + 1
  /\ userId' = TRUE
  /\ UNCHANGED <<schedVars, isMobile, hovered, hoverLeft, manualLeft, clicksLeft, submitsLeft>>
  /\ UNCHANGED <<store, appComments, inputValue, loading, createPending, inFlight, blockedSubmit,
                 likeVars, ghostVars>>

\* trickleListObjects resolves: setComments(commentsData), onCommentsUpdate,
\* then the render runs the auto-play effect (its old cleanup first) and the
\* restart effect when comments.length changed.
LoadResolve ==
  /\ loadPending > 0
  /\ loadPending' = loadPending - 1
  /\ IF mounted
     THEN LET c == RunCleanup(cleanup, timers, isProcessing, isRestarting) IN
          \E a \in AutoPlayEffect(store, playedCommentIds, Len(activeDanmaku),
                                  autoPlayTimer, restartTimer,
                                  c.timers, c.isProcessing, c.isRestarting) :
          \E r \in (IF Len(store) # Len(comments)
                    THEN RestartEffect(store, playedCommentIds, Len(activeDanmaku),
                                       a.timers, a.isProcessing, a.isRestarting)
                    ELSE {[timers |-> a.timers, isProcessing |-> a.isProcessing,
                           isRestarting |-> a.isRestarting]}) :
            /\ comments' = store
            /\ appComments' = store
            /\ nSet' = Min(MaxLoads, nSet + 1)
            /\ timers' = r.timers
            /\ isProcessing' = r.isProcessing
            /\ isRestarting' = r.isRestarting
            /\ autoPlayTimer' = NormRef(a.autoPlayTimer, r.timers)
            /\ restartTimer' = NormRef(restartTimer, r.timers)
            /\ cleanup' = NormCleanup(a.cleanup, r.timers)
            /\ unit' = NormUnits(unit, r.timers)
     ELSE UNCHANGED <<comments, appComments, nSet, timers, isProcessing, isRestarting,
                      autoPlayTimer, restartTimer, cleanup, unit>>
  /\ UNCHANGED <<mounted, activeDanmaku, playedCommentIds>>
  /\ UNCHANGED <<isMobile, hovered, hoverLeft, manualLeft, loadsLeft, clicksLeft, submitsLeft>>
  /\ UNCHANGED <<store, userId, inputValue, loading, createPending, inFlight, blockedSubmit, likeVars>>
  /\ UNCHANGED <<relCount, lateCallbacks, lateCompletes, overCap, onCompleteCalls,
                 overRelease, wrongBatch, rejectInFlight, lastManual>>

\* trickleListObjects rejects: the error is logged.
LoadRejectClears ==
  /\ loadPending > 0
  /\ loadPending' = loadPending - 1
  /\ rejectInFlight' = (rejectInFlight \/ (mounted /\ timers # {}))
  /\ comments' = <<>>
  /\ UNCHANGED <<mounted, activeDanmaku, playedCommentIds, autoPlayTimer, restartTimer,
                 isProcessing, isRestarting, cleanup, timers, unit>>
  /\ UNCHANGED <<isMobile, hovered, hoverLeft, manualLeft, loadsLeft, clicksLeft, submitsLeft>>
  /\ UNCHANGED <<appVars, likeVars, relCount, nSet, lateCallbacks, lateCompletes, overCap,
                 onCompleteCalls, overRelease, wrongBatch, lastManual>>
LoadReject ==
  /\ loadPending > 0
  /\ loadPending' = loadPending - 1
  /\ rejectInFlight' = (rejectInFlight \/ (mounted /\ timers # {}))
  /\ UNCHANGED <<schedVars, isMobile, hovered, hoverLeft, manualLeft, loadsLeft, clicksLeft, submitsLeft>>
  /\ UNCHANGED <<appVars, likeVars, relCount, nSet, lateCallbacks, lateCompletes, overCap,
                 onCompleteCalls, overRelease, wrongBatch, lastManual>>

\* ------------------------------------------------------------- pointer
\* The unit is under way between the right edge, where it starts, and the
\* left edge, where its traversal ends off screen.
OnScreen(u) == u.anim \in {"running", "paused"} /\ u.left > 0

\* handleMouseEnter: setIsHovered(true), animation.pause()
HandleMouseEnter(id) ==
  /\ mounted /\ hovered = 0 /\ hoverLeft > 0
  /\ OnScreen(unit[id])
  /\ hoverLeft' = hoverLeft - 1
  /\ hovered' = id
  /\ unit' = [unit EXCEPT ![id] = [Pause(@) EXCEPT !.isHovered = TRUE]]
  /\ UNCHANGED <<mounted, comments, activeDanmaku, playedCommentIds, autoPlayTimer,
                 restartTimer, isProcessing, isRestarting, cleanup, timers>>
  /\ UNCHANGED <<isMobile, manualLeft, loadsLeft, clicksLeft, submitsLeft, loadPending>>
  /\ UNCHANGED <<appVars, likeVars, ghostVars>>

MouseEnter == \E id \in DOMAIN unit : HandleMouseEnter(id)

\* The pointer enters a unit whose comment is on screen twice.
TwiceOnScreen(id) ==
  \E i, j \in 1..Len(activeDanmaku) :
    /\ activeDanmaku[i].id = id /\ activeDanmaku[j].id # id
    /\ activeDanmaku[i].commentId # NoId
    /\ activeDanmaku[i].commentId = activeDanmaku[j].commentId

MouseEnterTwin == \E id \in DOMAIN unit : TwiceOnScreen(id) /\ HandleMouseEnter(id)

\* handleMouseLeave: setIsHovered(false), animation.play()
MouseLeave ==
  /\ mounted /\ hovered \in DOMAIN unit
  /\ hovered' = 0
  /\ unit' = [unit EXCEPT ![hovered] = [Play(@) EXCEPT !.isHovered = FALSE]]
  /\ UNCHANGED <<mounted, comments, activeDanmaku, playedCommentIds, autoPlayTimer,
                 restartTimer, isProcessing, isRestarting, cleanup, timers>>
  /\ UNCHANGED <<isMobile, hoverLeft, manualLeft, loadsLeft, clicksLeft, submitsLeft, loadPending>>
  /\ UNCHANGED <<appVars, likeVars, ghostVars>>

\* ---------------------------------------------------- manual injection
ManualTexts == {Str(<<"a", " ">>), Str(<<" ">>), NullText}

\* window.addDanmaku(text): addDanmaku(text) with no comment data
InjectWhenIdle(text) ==
  /\ mounted
  /\ lastManual' = text
  /\ activeDanmaku' = IF isProcessing \/ isRestarting THEN activeDanmaku
                      ELSE AddDanmaku(activeDanmaku, text, NoComment)
  /\ unit' = Rendered(activeDanmaku', comments, playedCommentIds, restartTimer, likedStorage)
  /\ UNCHANGED <<mounted, comments, playedCommentIds, autoPlayTimer, restartTimer,
                 isProcessing, isRestarting, cleanup, timers>>
Inject(text) ==
  /\ mounted
  /\ lastManual' = text
  /\ activeDanmaku' = AddDanmaku(activeDanmaku, text, NoComment)
  /\ unit' = Rendered(activeDanmaku', comments, playedCommentIds, restartTimer, likedStorage)
  /\ UNCHANGED <<mounted, comments, playedCommentIds, autoPlayTimer, restartTimer,
                 isProcessing, isRestarting, cleanup, timers>>

WindowAddDanmaku ==
  \E text \in ManualTexts :
    /\ manualLeft > 0
    /\ manualLeft' = manualLeft - 1
    /\ Inject(text)
    /\ UNCHANGED <<isMobile, hovered, hoverLeft, loadsLeft, clicksLeft, submitsLeft, loadPending>>
    /\ UNCHANGED <<appVars, likeVars, relCount, nSet, lateCallbacks, lateCompletes, overCap,
                   onCompleteCalls, overRelease, wrongBatch, rejectInFlight>>

\* window.addDanmaku called between two cycles: when the restart timer is
\* about to fire or the restart-drain timer is pending.
BetweenCycles ==
  \E tm \in timers : (tm.kind = "restart" /\ tm.t = 0) \/ tm.kind = "rdrain"

BurstAddDanmaku ==
  /\ manualLeft > 0 /\ BetweenCycles
  /\ manualLeft' = manualLeft - 1
  /\ Inject(Str(<<"a", " ">>))
  /\ UNCHANGED <<isMobile, hovered, hoverLeft, loadsLeft, clicksLeft, submitsLeft, loadPending>>
  /\ UNCHANGED <<appVars, likeVars, relCount, nSet, lateCallbacks, lateCompletes, overCap,
                 onCompleteCalls, overRelease, wrongBatch, rejectInFlight>>

\* ----------------------------------------------------------------- like
\* DanmakuComment.handleLike of the unit under the pointer; its like control
\* is rendered when currentLikes > 0 or when the unit is hovered.
HandleLikeAnyUnit(id) ==
  LET e == CHOOSE x \in SeqToSet(activeDanmaku) : x.id = id IN
  IF unit[id].isLiked
  THEN UNCHANGED <<unit, likedStorage, likeRequests, likeOps>>
  ELSE /\ unit' = [unit EXCEPT ![id] = [@ EXCEPT !.isLiked = TRUE, !.currentLikes = @ + 1,
                                                  !.currentScale = GetScale(unit[id].currentLikes + 1)]]
       /\ likedStorage' = Append(likedStorage, e.commentId)
       /\ likeRequests' = [likeRequests EXCEPT ![e.commentId] = Min(MaxClicks, @ + 1)]
       /\ likeOps' = Append(likeOps, [c |-> e.commentId, phase |-> "get", read |-> 0])
HandleLike(id) ==
  LET e == CHOOSE x \in SeqToSet(activeDanmaku) : x.id = id IN
  IF e.commentId = NoId \/ unit[id].isLiked
  THEN UNCHANGED <<unit, likedStorage, likeRequests, likeOps>>
  ELSE /\ unit' = [unit EXCEPT ![id] = [@ EXCEPT !.isLiked = TRUE, !.currentLikes = @ + 1,
                                                  !.currentScale = GetScale(unit[id].currentLikes + 1)]]
       /\ likedStorage' = Append(likedStorage, e.commentId)
       /\ likeRequests' = [likeRequests EXCEPT ![e.commentId] = Min(MaxClicks, @ + 1)]
       /\ likeOps' = Append(likeOps, [c |-> e.commentId, phase |-> "get", read |-> 0])

LikeClick ==
  /\ mounted /\ clicksLeft > 0 /\ hovered \in DOMAIN unit
  /\ unit[hovered].currentLikes > 0 \/ unit[hovered].isHovered
  /\ clicksLeft' = clicksLeft - 1
  /\ HandleLike(hovered)
  /\ UNCHANGED <<mounted, comments, activeDanmaku, playedCommentIds, autoPlayTimer,
                 restartTimer, isProcessing, isRestarting, cleanup, timers>>
  /\ UNCHANGED <<isMobile, hovered, hoverLeft, manualLeft, loadsLeft, submitsLeft, loadPending>>
  /\ UNCHANGED <<appVars, ghostVars>>

\* DanmakuManager.handleLike, started by onLike: trickleGetObject, then
\* trickleUpdateObject with likes_count one more than the count that was read;
\* an error of either call is logged.
Without(ops, i) == SubSeq(ops, 1, i - 1) \o SubSeq(ops, i + 1, Len(ops))

LikesOf(rows, c) == LET Is(r) == r.id = c IN
  IF Len(SelectSeq(rows, Is)) = 0 THEN 0 ELSE SelectSeq(rows, Is)[1].likesCount

LikeFrame ==
  /\ UNCHANGED <<schedVars, envVars, ghostVars, likedStorage, likeRequests>>
  /\ UNCHANGED <<userId, appComments, inputValue, loading, createPending, inFlight, blockedSubmit>>

LikeGetResolve ==
  \E i \in 1..Len(likeOps) :
    /\ likeOps[i].phase = "get"
    /\ likeOps' = [likeOps EXCEPT ![i] = [@ EXCEPT !.phase = "update", !.read = LikesOf(store, likeOps[i].c)]]
    /\ UNCHANGED store
    /\ LikeFrame

LikeGetReject ==
  \E i \in 1..Len(likeOps) :
    /\ likeOps[i].phase = "get"
    /\ likeOps' = Without(likeOps, i)
    /\ UNCHANGED store
    /\ LikeFrame

LikeUpdateResolve ==
  \E i \in 1..Len(likeOps) :
    /\ likeOps[i].phase = "update"
    /\ store' = [k \in 1..Len(store) |->
                   IF store[k].id = likeOps[i].c
                   THEN [store[k] EXCEPT !.likesCount = likeOps[i].read + 1]
                   ELSE store[k]]
    /\ likeOps' = Without(likeOps, i)
    /\ LikeFrame

\* handleLike running in another browser: the same get and update against
\* the same store, none of this page's state involved.
RemoteLike ==
  \E c \in CommentIds(store) \ {NoId} :
    /\ Len(likeOps) < MaxInFlight /\ LikesOf(store, c) < LikeCap
    /\ likeOps' = Append(likeOps, [c |-> c, phase |-> "get", read |-> 0])
    /\ UNCHANGED store
    /\ LikeFrame

LikeUpdateRollback ==
  \E i \in 1..Len(likeOps) :
    /\ likeOps[i].phase = "update"
    /\ likeOps' = Without(likeOps, i)
    /\ unit' = [id \in DOMAIN unit |->
                  IF /\ unit[id].isLiked
                     /\ \E e \in SeqToSet(activeDanmaku) : e.id = id /\ e.commentId = likeOps[i].c
                  THEN [unit[id] EXCEPT !.isLiked = FALSE, !.currentLikes = @ - 1,
                                        !.currentScale = GetScale(unit[id].currentLikes - 1)]
                  ELSE unit[id]]
    /\ UNCHANGED <<mounted, comments, activeDanmaku, playedCommentIds, autoPlayTimer,
                   restartTimer, isProcessing, isRestarting, cleanup, timers>>
    /\ UNCHANGED <<envVars, appVars, ghostVars, likedStorage, likeRequests>>
LikeUpdateReject ==
  \E i \in 1..Len(likeOps) :
    /\ likeOps[i].phase = "update"
    /\ likeOps' = Without(likeOps, i)
    /\ UNCHANGED store
    /\ LikeFrame

\* ------------------------------------------------------------------ App
InputTexts == {Str(<<" ", "b">>), Str(<<" ">>)}

\* The input's onChange: setInputValue; the input is disabled while loading
TypeInput ==
  \E text \in InputTexts :
    /\ submitsLeft > 0 /\ ~loading /\ inputValue # text
    /\ inputValue' = text
    /\ UNCHANGED <<schedVars, envVars, likeVars, ghostVars>>
    /\ UNCHANGED <<store, userId, appComments, loading, createPending, inFlight, blockedSubmit>>

\* handleSubmitComment up to its await: it returns at once when the input
\* is blank, a submission is loading or there is no userId; otherwise
\* trickleCreateObject is in flight.
SubmitUnguarded ==
  /\ submitsLeft > 0
  /\ submitsLeft' = submitsLeft - 1
  /\ blockedSubmit' = (blockedSubmit \/ loading)
  /\ loading' = TRUE
  /\ createPending' = Str(Trim(inputValue.s))
  /\ inFlight' = inFlight + 1
  /\ UNCHANGED <<schedVars, likeVars, ghostVars>>
  /\ UNCHANGED <<isMobile, hovered, hoverLeft, manualLeft, loadsLeft, clicksLeft, loadPending>>
  /\ UNCHANGED <<store, userId, appComments, inputValue>>
SubmitComment ==
  /\ submitsLeft > 0
  /\ submitsLeft' = submitsLeft - 1
  /\ blockedSubmit' = (blockedSubmit \/ loading)
  /\ IF Trim(inputValue.s) = <<>> \/ loading \/ ~userId
     THEN UNCHANGED <<loading, createPending, inFlight>>
     ELSE /\ loading' = TRUE
          /\ createPending' = Str(Trim(inputValue.s))
          /\ inFlight' = inFlight + 1
  /\ UNCHANGED <<schedVars, likeVars, ghostVars>>
  /\ UNCHANGED <<isMobile, hovered, hoverLeft, manualLeft, loadsLeft, clicksLeft, loadPending>>
  /\ UNCHANGED <<store, userId, appComments, inputValue>>

\* The row trickleCreateObject adds to the store
Created(text) ==
  [id |-> Len(store) + 1, text |-> text, createdAt |-> CreatedAtMs(Len(store) + 1),
   likesCount |-> 0]

\* handleSubmitComment after the await resolved: the new comment goes to the
\* front of App's comments, the text to window.addDanmaku when the bridge is
\* installed, the input is emptied and loading ends.
CreateResolve ==
  /\ createPending # NoText
  /\ store' = <<Created(createPending)>> \o store
  /\ appComments' = <<Created(createPending)>> \o SubSeq(appComments, 1, Min(SliceKeep, Len(appComments)))
  /\ IF mounted THEN Inject(createPending) ELSE UNCHANGED <<schedVars, lastManual>>
  /\ inputValue' = Str(<<>>)
  /\ loading' = FALSE
  /\ createPending' = NoText
  /\ inFlight' = inFlight - 1
  /\ UNCHANGED <<envVars, userId, blockedSubmit, likeVars, relCount, nSet, lateCallbacks, lateCompletes, overCap,
                 onCompleteCalls, overRelease, wrongBatch, rejectInFlight>>

\* handleSubmitComment after the await rejected: the error is logged, loading ends.
CreateRejectClears ==
  /\ createPending # NoText
  /\ loading' = FALSE
  /\ createPending' = NoText
  /\ inFlight' = inFlight - 1
  /\ inputValue' = Str(<<>>)
  /\ UNCHANGED <<schedVars, envVars, likeVars, ghostVars>>
  /\ UNCHANGED <<store, userId, appComments, blockedSubmit>>
CreateReject ==
  /\ createPending # NoText
  /\ loading' = FALSE
  /\ createPending' = NoText
  /\ inFlight' = inFlight - 1
  /\ UNCHANGED <<schedVars, envVars, likeVars, ghostVars>>
  /\ UNCHANGED <<store, userId, appComments, inputValue, blockedSubmit>>


\* -------------------------------------------------------------- unmount
\* DanmakuManager unmounts: the auto-play effect's cleanup runs, the bridge is
\* deleted, and every DanmakuComment unmounts and cancels its animation.
Unmount ==
  /\ mounted
  /\ mounted' = FALSE
  /\ LET c == RunCleanup(cleanup, timers, isProcessing, isRestarting) IN
       /\ timers' = c.timers
       /\ isProcessing' = c.isProcessing
       /\ isRestarting' = c.isRestarting
       /\ cleanup' = NoCleanup
       /\ autoPlayTimer' = NormRef(autoPlayTimer, c.timers)
       /\ restartTimer' = NormRef(restartTimer, c.timers)
       /\ unit' = [id \in DOMAIN unit |->
                     [CancelAnimation(unit[id]) EXCEPT !.rTimer = NormRef(@, c.timers),
                                                       !.isHovered = FALSE]]
  /\ hovered' = 0
  /\ UNCHANGED <<comments, activeDanmaku, playedCommentIds>>
  /\ UNCHANGED <<isMobile, hoverLeft, manualLeft, loadsLeft, clicksLeft, submitsLeft, loadPending>>
  /\ UNCHANGED <<appVars, likeVars, ghostVars>>

\* ----------------------------------------------------------------- time
Due ==
  \/ \E tm \in timers : tm.t = 0
  \/ \E id \in DOMAIN unit : unit[id].anim = "running" /\ unit[id].left = 0

Moving ==
  \/ timers # {}
  \/ \E id \in DOMAIN unit : unit[id].anim = "running"

\* One tick passes: nothing is due, every timer and every running animation
\* gets one tick closer.
Tick ==
  /\ ~Due /\ Moving
  /\ timers' = {[tm EXCEPT !.t = @ - 1] : tm \in timers}
  /\ unit' = [id \in DOMAIN unit |->
                IF unit[id].anim = "running" THEN [unit[id] EXCEPT !.left = @ - 1]
                ELSE unit[id]]
  /\ UNCHANGED <<mounted, comments, activeDanmaku, playedCommentIds, autoPlayTimer,
                 restartTimer, isProcessing, isRestarting, cleanup>>
  /\ UNCHANGED <<envVars, appVars, likeVars, ghostVars>>

\* ------------------------------------------------------ specifications
Init ==
  /\ InitCommon
  /\ \E n \in 1..MaxComments : store \in Stores(n)
  /\ hoverLeft = MaxHover
  /\ manualLeft = MaxManual
  /\ loadsLeft = UserIdChanges
  /\ clicksLeft = 0
  /\ submitsLeft = 0

Next ==
  \/ UserIdChange
  \/ LoadResolve
  \/ LoadReject
  \/ DrainTimerFire
  \/ BatchTimerFire
  \/ UnitComplete
  \/ RestartTimerFire
  \/ MouseEnter
  \/ MouseLeave
  \/ WindowAddDanmaku
  \/ Unmount
  \/ Tick

Spec == Init /\ [][Next]_vars

\* The burst specification: window.addDanmaku is called up to BurstManual
\* times between two cycles, and the pointer goes to comments that are on
\* screen twice.
InitBurst ==
  /\ InitCommon
  /\ \E n \in 1..BurstComments : store \in Stores(n)
  /\ hoverLeft = MaxClicks
  /\ manualLeft = BurstManual
  /\ loadsLeft = UserIdChanges
  /\ clicksLeft = MaxClicks
  /\ submitsLeft = 0

NextBurst ==
  \/ UserIdChange
  \/ LoadResolve
  \/ DrainTimerFire
  \/ BatchTimerFire
  \/ UnitComplete
  \/ RestartTimerFire
  \/ BurstAddDanmaku
  \/ MouseEnterTwin
  \/ MouseLeave
  \/ LikeClick
  \/ LikeGetResolve
  \/ LikeGetReject
  \/ LikeUpdateResolve
  \/ LikeUpdateReject
  \/ Tick

SpecBurst == InitBurst /\ [][NextBurst]_vars

\* The flood specification: the burst specification without pointer events,
\* with up to FloodManual calls of window.addDanmaku between two cycles.
InitFlood ==
  /\ InitCommon
  /\ \E n \in 1..BurstComments : store \in Stores(n)
  /\ hoverLeft = 0
  /\ manualLeft = FloodManual
  /\ loadsLeft = UserIdChanges
  /\ clicksLeft = 0
  /\ submitsLeft = 0

NextFlood ==
  \/ UserIdChange
  \/ LoadResolve
  \/ DrainTimerFire
  \/ BatchTimerFire
  \/ UnitComplete
  \/ RestartTimerFire
  \/ BurstAddDanmaku
  \/ Tick

SpecFlood == InitFlood /\ [][NextFlood]_vars

\* The page specification: the form is used, nothing else is touched.
InitApp ==
  /\ InitCommon
  /\ \E n \in 1..MaxComments : store \in Stores(n)
  /\ hoverLeft = 0
  /\ manualLeft = 0
  /\ loadsLeft = UserIdChanges
  /\ clicksLeft = 0
  /\ submitsLeft = MaxSubmits

NextApp ==
  \/ UserIdChange
  \/ LoadResolve
  \/ LoadReject
  \/ DrainTimerFire
  \/ BatchTimerFire
  \/ UnitComplete
  \/ RestartTimerFire
  \/ TypeInput
  \/ SubmitComment
  \/ CreateResolve
  \/ CreateReject
  \/ Tick

SpecApp == InitApp /\ [][NextApp]_vars

\* The like specification: the pointer goes to any unit on screen and clicks
\* its like control; the store answers or fails.  Every row has its id and
\* a text; row k has the like count LikeCounts[k], going round.
LikeCounts == <<0, 10, 50>>

LikesOfRow(k) == LikeCounts[((k - 1) % Len(LikeCounts)) + 1]

LikeStores(n) ==
  {[i \in 1..n |-> [Row(n + 1 - i, TRUE, TRUE) EXCEPT !.likesCount = LikesOfRow(n + 1 - i)]]}

InitLike ==
  /\ InitCommon
  /\ \E n \in 1..LikeComments : store \in LikeStores(n)
  /\ hoverLeft = MaxHover
  /\ manualLeft = 0
  /\ loadsLeft = UserIdChanges
  /\ clicksLeft = MaxClicks
  /\ submitsLeft = 0

NextLike ==
  \/ UserIdChange
  \/ LoadResolve
  \/ DrainTimerFire
  \/ BatchTimerFire
  \/ UnitComplete
  \/ RestartTimerFire
  \/ MouseEnter
  \/ MouseLeave
  \/ LikeClick
  \/ LikeGetResolve
  \/ LikeGetReject
  \/ LikeUpdateResolve
  \/ LikeUpdateReject
  \/ Tick

SpecLike == InitLike /\ [][NextLike]_vars

\* The jitter specification: the scheduler alone, over rows created less
\* than the comparator's random variance apart.
CloseCreatedAtMs(k) == (k - 1) * 600

CloseStores(n) ==
  {[i \in 1..n |-> [Row(n + 1 - i, TRUE, TRUE) EXCEPT !.createdAt = CloseCreatedAtMs(n + 1 - i)]]}

InitJitter ==
  /\ InitCommon
  /\ \E n \in 1..MaxComments : store \in CloseStores(n)
  /\ hoverLeft = 0
  /\ manualLeft = 0
  /\ loadsLeft = UserIdChanges
  /\ clicksLeft = 0
  /\ submitsLeft = 0

NextJitter ==
  \/ UserIdChange
  \/ LoadResolve
  \/ DrainTimerFire
  \/ BatchTimerFire
  \/ UnitComplete
  \/ RestartTimerFire
  \/ Tick

SpecJitter == InitJitter /\ [][NextJitter]_vars

\* The id specification: the scheduler and the pointer, with runs of
\* playNextBatch in which two ids are the same number.
InitIds ==
  /\ InitCommon
  /\ \E n \in 1..MaxComments : store \in CloseStores(n)
  /\ hoverLeft = MaxHover
  /\ manualLeft = 0
  /\ loadsLeft = UserIdChanges
  /\ clicksLeft = 0
  /\ submitsLeft = 0

NextIds ==
  \/ UserIdChange
  \/ LoadResolve
  \/ DrainTimerFire
  \/ DrainTimerClash
  \/ BatchTimerFire
  \/ UnitComplete
  \/ RestartTimerFire
  \/ MouseEnter
  \/ MouseLeave
  \/ Tick

SpecIds == InitIds /\ [][NextIds]_vars

\* The store specification: the page shows the one stored comment while
\* other browsers like that comment through their own handleLike.
InitStore ==
  /\ InitCommon
  /\ store \in LikeStores(BurstComments)
  /\ hoverLeft = 0
  /\ manualLeft = 0
  /\ loadsLeft = UserIdChanges
  /\ clicksLeft = 0
  /\ submitsLeft = 0

NextStore ==
  \/ UserIdChange
  \/ LoadResolve
  \/ DrainTimerFire
  \/ UnitComplete
  \/ RestartTimerFire
  \/ RemoteLike
  \/ LikeGetResolve
  \/ LikeGetReject
  \/ LikeUpdateResolve
  \/ LikeUpdateReject
  \/ Tick

SpecStore == InitStore /\ [][NextStore]_vars

\* The reload specification: DanmakuManager as a component whose userId prop
\* changes up to MaxLoads times, each change calling loadComments.  Every row
\* has its id and a text.
ReloadStores(n) == {[i \in 1..n |-> Row(n + 1 - i, TRUE, TRUE)]}

InitReload ==
  /\ InitCommon
  /\ \E n \in 1..MaxComments : store \in ReloadStores(n)
  /\ hoverLeft = 0
  /\ manualLeft = 0
  /\ loadsLeft = MaxLoads
  /\ clicksLeft = 0
  /\ submitsLeft = 0

NextReload ==
  \/ UserIdChange
  \/ LoadResolve
  \/ LoadReject
  \/ DrainTimerFire
  \/ BatchTimerFire
  \/ UnitComplete
  \/ RestartTimerFire
  \/ Tick

SpecReload == InitReload /\ [][NextReload]_vars

\* The form specification: the page over a store of valid rows, with
\* FormSubmits submit events, so that one can arrive while the create call
\* of another is in flight or after it has failed.
InitForm ==
  /\ InitCommon
  /\ store \in ReloadStores(MaxComments)
  /\ hoverLeft = 0
  /\ manualLeft = 0
  /\ loadsLeft = UserIdChanges
  /\ clicksLeft = 0
  /\ submitsLeft = FormSubmits

NextForm ==
  \/ UserIdChange
  \/ LoadResolve
  \/ DrainTimerFire
  \/ BatchTimerFire
  \/ UnitComplete
  \/ RestartTimerFire
  \/ TypeInput
  \/ SubmitComment
  \/ CreateResolve
  \/ CreateReject
  \/ Tick

SpecForm == InitForm /\ [][NextForm]_vars

\* The manual-unit specification: the page with one stored row, which may
\* lack its id, a call of window.addDanmaku, the pointer and the like
\* controls.
InitNull ==
  /\ InitCommon
  /\ store \in Stores(BurstComments)
  /\ hoverLeft = MaxHover
  /\ manualLeft = MaxManual
  /\ loadsLeft = UserIdChanges
  /\ clicksLeft = MaxClicks
  /\ submitsLeft = 0

NextNull ==
  \/ UserIdChange
  \/ LoadResolve
  \/ DrainTimerFire
  \/ UnitComplete
  \/ RestartTimerFire
  \/ WindowAddDanmaku
  \/ MouseEnter
  \/ MouseLeave
  \/ LikeClick
  \/ LikeGetResolve
  \/ LikeGetReject
  \/ LikeUpdateResolve
  \/ LikeUpdateReject
  \/ Tick

SpecNull == InitNull /\ [][NextNull]_vars

\* =============================================================== claims
ValidIn(cs) == {cs[i].id : i \in {j \in 1..Len(cs) : ValidText(cs[j].text)}}
Stopped == timers = {} /\ activeDanmaku = <<>> /\ loadPending = 0
Untouched == hoverLeft = MaxHover /\ manualLeft = MaxManual
RestartPending == \E tm \in timers : tm.kind = "restart"
Completed == mounted /\ Len(activeDanmaku') < Len(activeDanmaku)
Count(q, x) == Cardinality({i \in 1..Len(q) : q[i] = x})
ResetStep == mounted /\ \E tm \in timers : tm.kind = "restart" /\ tm.t = 0 /\ tm \notin timers'

\* C1: with one setComments call, no comment of non-empty text is released
\* twice within a cycle, and when PlayedSet is reset every such comment has
\* been released once since PlayedSet was last empty (every comment has an id).
C1_ExactlyOncePerCycle ==
  [][(nSet = 1 /\ NoId \notin CommentIds(comments)) =>
       /\ \A c \in ValidIn(comments) : relCount'[c] <= 1
       /\ ResetStep => \A c \in ValidIn(comments) : relCount[c] = 1]_vars

\* C2: a unit completion that leaves the pool empty while the comment set is
\* non-empty, every comment is played and no restart is scheduled arms a
\* restart timer of RestartMs, whichever unit completes last (here: every
\* comment has an id and nothing was injected by hand).
C2_LastCompletionArmsRestart ==
  [][(/\ Completed
      /\ manualLeft = MaxManual /\ NoId \notin CommentIds(comments)
      /\ activeDanmaku' = <<>>
      /\ Len(comments) > 0
      /\ Cardinality(playedCommentIds) >= Len(comments)
      /\ ~isRestarting /\ ~RestartPending)
     => \E tm \in timers' : tm.kind = "restart" /\ tm.t = Ticks(RestartMs)]_vars

\* C3: with at least one comment of non-empty text in the comment set the
\* display loop never stops, also when other comments have blank text: with
\* no hover and no manual injection there is always a pending timer or a
\* unit on screen (every comment has an id).
C3_LoopNeverStops ==
  (mounted /\ Untouched /\ ValidIn(comments) # {} /\ NoId \notin CommentIds(comments))
    => ~Stopped

\* C4: no run of playNextBatch leaves more entries in the pool than the
\* maxConcurrent it drew (every comment has an id).
C4_PoolWithinMaxConcurrent == NoId \notin CommentIds(comments) => ~overCap

\* C5: after DanmakuManager is unmounted none of its timer callbacks runs.
C5_NoCallbackAfterUnmount == ~lateCallbacks

\* C6: for every persisted comment id at most one like request is forwarded
\* and the id is in the local like-set at most once.
C6_AtMostOneLike ==
  \A c \in AllIds \ {NoId} : likeRequests[c] <= 1 /\ Count(likedStorage, c) <= 1

\* C7: a unit invokes onComplete at most once, and never after it was torn down.
C7_OnCompleteAtMostOnce == onCompleteCalls <= 1 /\ ~lateCompletes

\* A unit has completed, another was hovered, and the unmount tore down a
\* unit in the middle of its traversal.
C7_Witness ==
  /\ onCompleteCalls = 1
  /\ hoverLeft < MaxHover
  /\ ~mounted
  /\ \E id \in DOMAIN unit : unit[id].anim = "idle" /\ unit[id].left < Ticks(AnimationMs)

\* C8: no entry of the pool has empty text after trimming, and a comment
\* whose text is empty, blank or not a string is neither released nor played.
C8_NoBlankUnit ==
  /\ \A i \in 1..Len(activeDanmaku) : Trim(activeDanmaku[i].text) # <<>>
  /\ \A i \in 1..Len(comments) :
       (~ValidText(comments[i].text) /\ comments[i].id \notin ValidIn(comments))
         => (comments[i].id \notin playedCommentIds /\ relCount[comments[i].id] = 0)

\* The set holds a comment of invalid text, every valid comment was released,
\* and a manual injection was made that added no unit.
C8_Witness ==
  /\ \E i \in 1..Len(comments) : ~ValidText(comments[i].text)
  /\ ValidIn(comments) # {} /\ ValidIn(comments) \subseteq playedCommentIds
  /\ NoId \notin CommentIds(comments)
  /\ manualLeft < MaxManual
  /\ activeDanmaku # <<>>
  /\ \A i \in 1..Len(activeDanmaku) : activeDanmaku[i].commentId # NoId

\* C9: a comment without an id is never released and never recorded as played.
C9_NoIdNeverReleased == NoId \notin playedCommentIds /\ relCount[NoId] = 0

\* C10: once a submission is confirmed by the store and nothing is in flight,
\* the scheduler's comment set holds every comment of the store, the newly
\* created one included (every comment has an id).
C10_SubmissionReachesScheduler ==
  (mounted /\ nSet > 0 /\ loadPending = 0 /\ createPending = NoText
     /\ NoId \notin CommentIds(store))
    => CommentIds(store) \subseteq CommentIds(comments)

\* C11: a window.addDanmaku call whose text is a string that is not blank
\* adds exactly one entry to the pool, at its end, with the trimmed text, no
\* comment id and no likes, whatever the pool holds and whatever the guard
\* flags say; the call leaves the played set, the comment set, the guard
\* flags and the pending timers as they were.
ManualCall == manualLeft' < manualLeft

C11_ManualInjectFrame ==
  [][ManualCall =>
       /\ ValidText(lastManual') =>
            /\ Len(activeDanmaku') = Len(activeDanmaku) + 1
            /\ SubSeq(activeDanmaku', 1, Len(activeDanmaku)) = activeDanmaku
            /\ activeDanmaku'[Len(activeDanmaku')].id \notin Ids(activeDanmaku)
            /\ activeDanmaku'[Len(activeDanmaku')].text = Trim(lastManual'.s)
            /\ activeDanmaku'[Len(activeDanmaku')].commentId = NoId
            /\ activeDanmaku'[Len(activeDanmaku')].likesCount = 0
       /\ UNCHANGED <<playedCommentIds, comments, isProcessing, isRestarting, timers>>]_vars

\* On a mobile screen the pool holds as many hand-injected entries as the
\* smallest maxConcurrent, the last of them added while a guard flag was set.
C11_Witness ==
  /\ isMobile /\ Len(activeDanmaku) >= MobileBase
  /\ activeDanmaku[Len(activeDanmaku)].commentId = NoId
  /\ activeDanmaku[Len(activeDanmaku)].text = Trim(lastManual.s)
  /\ isProcessing \/ isRestarting

\* C12: the played set changes in two ways only: a run of playNextBatch adds
\* the ids of the comments it releases and drops none, and the restart timer
\* sets it to empty.  Loading, manual injection, unit completion, hover and
\* unmount leave it as it was.
ReleaseStep ==
  mounted /\ \E tm \in timers :
    tm.kind \in {"auto", "rdrain", "batch"} /\ tm.t = 0 /\ tm \notin timers'

NewEntries == {activeDanmaku'[i] : i \in (Len(activeDanmaku) + 1)..Len(activeDanmaku')}

C12_PlayedSetChanges ==
  [][playedCommentIds' # playedCommentIds =>
       \/ /\ ReleaseStep
          /\ playedCommentIds \subseteq playedCommentIds'
          /\ playedCommentIds' \ playedCommentIds \subseteq {e.commentId : e \in NewEntries}
       \/ /\ ResetStep
          /\ playedCommentIds' = {}]_vars

\* The restart timer has fired and the next cycle has released a comment.
C12_Witness ==
  /\ mounted /\ restartTimer = Dead /\ ~isRestarting
  /\ playedCommentIds # {}
  /\ \E i \in 1..Len(activeDanmaku) : activeDanmaku[i].commentId \in playedCommentIds

\* C13: when the list call rejects, the comment set, the played set and the
\* pool stay as they were, the parent's comments are not replaced, no timer
\* is created or cleared and no guard flag changes, so the drains and
\* restarts in progress go on.
RejectStep == mounted /\ loadPending' < loadPending /\ nSet' = nSet

C13_RejectChangesNothing ==
  [][RejectStep =>
       /\ UNCHANGED <<comments, playedCommentIds, activeDanmaku, appComments>>
       /\ UNCHANGED <<timers, isProcessing, isRestarting, autoPlayTimer, restartTimer>>
       /\ UNCHANGED <<cleanup, unit>>]_vars

\* A second list call rejected while a timer of the first drain was pending,
\* and a timer is still pending now.
C13_Witness ==
  /\ rejectInFlight /\ nSet = 1
  /\ loadsLeft = 0 /\ loadPending = 0
  /\ comments # <<>> /\ timers # {}

\* C14: a click on the like control of a unit whose comment is persisted and
\* not in the local like-set raises the unit's displayed count by one and
\* puts the id in the like-set in the same step, while the store call is
\* still in flight; a step in which the store answers or fails changes
\* neither.  The displayed count of a unit never goes down and never passes
\* the count it was mounted with plus one.
Entry(id) == CHOOSE e \in SeqToSet(activeDanmaku) : e.id = id

ClickStep == clicksLeft' < clicksLeft

StoreStep == likeOps' # likeOps /\ ~ClickStep

C14_LikeIsOptimistic ==
  [][/\ \A id \in DOMAIN unit \cap DOMAIN unit' :
          /\ unit'[id].currentLikes >= unit[id].currentLikes
          /\ unit'[id].currentLikes <= Entry(id).likesCount + 1
     /\ (/\ ClickStep
         /\ Entry(hovered).commentId # NoId
         /\ Entry(hovered).commentId \notin SeqToSet(likedStorage))
        => /\ unit'[hovered].currentLikes = unit[hovered].currentLikes + 1
           /\ Entry(hovered).commentId \in SeqToSet(likedStorage')
           /\ \E i \in 1..Len(likeOps') :
                likeOps'[i].c = Entry(hovered).commentId /\ likeOps'[i].phase = "get"
     /\ StoreStep => UNCHANGED <<unit, likedStorage>>]_vars

\* A unit shows one like more than it was mounted with, its comment is in the
\* like-set, no store call is in flight and the store still holds the old
\* count: the get or the update failed.
C14_Witness ==
  /\ likeOps = <<>> /\ clicksLeft < MaxClicks
  /\ \E id \in DOMAIN unit :
       /\ id \in Ids(activeDanmaku)
       /\ unit[id].isLiked
       /\ unit[id].currentLikes = Entry(id).likesCount + 1
       /\ Entry(id).commentId \in SeqToSet(likedStorage)
       /\ LikesOf(store, Entry(id).commentId) = Entry(id).likesCount

\* C15: in a step that puts the pointer on a unit, keeps it there or takes
\* it away, the unit stays in the pool and the rest of its traversal is
\* what it was: the traversal is suspended on enter, does not advance or
\* complete while hovered, and on leave runs on from where it was suspended.
C15_HoverKeepsProgress ==
  [][\A id \in DOMAIN unit :
       (unit[id].isHovered \/ (id \in DOMAIN unit' /\ unit'[id].isHovered))
         => /\ id \in DOMAIN unit' /\ id \in Ids(activeDanmaku')
            /\ unit'[id].left = unit[id].left
            /\ unit'[id].isHovered => unit'[id].anim = "paused"
            /\ (mounted' /\ ~unit'[id].isHovered) => unit'[id].anim = "running"]_vars

\* The pointer has come and gone: of two units under way, the one mounted
\* first has more of its traversal left, and less than a whole traversal.
C15_Witness ==
  /\ hovered = 0 /\ hoverLeft < MaxHover
  /\ \E a, b \in DOMAIN unit :
       /\ MountedBefore(a, b)
       /\ unit[a].anim = "running" /\ unit[b].anim = "running"
       /\ unit[a].left > unit[b].left
       /\ unit[a].left < Ticks(AnimationMs)

\* C16: the scale a unit is rendered with is, in hundredths, 80 plus 2 for
\* each like of the count it displays at that moment (80 at 0 likes, 100 at
\* 10, 180 at 50), also after a like click; one like more always gives a
\* larger scale, and no count is capped.
MostLikes == CHOOSE l \in SeqToSet(LikeCounts) : \A m \in SeqToSet(LikeCounts) : m <= l

C16_ScaleFollowsLikes ==
  /\ \A id \in DOMAIN unit :
       /\ unit[id].currentScale = 80 + 2 * unit[id].currentLikes
       /\ unit[id].currentLikes = 0 => unit[id].currentScale = 80
       /\ unit[id].currentLikes = 10 => unit[id].currentScale = 100
       /\ unit[id].currentLikes = 50 => unit[id].currentScale = 180
  /\ \A a, b \in DOMAIN unit :
       unit[a].currentLikes < unit[b].currentLikes => unit[a].currentScale < unit[b].currentScale
  /\ \A l \in 0..MostLikes : GetScale(l + 1) > GetScale(l)

\* A unit mounted with 50 likes was liked and is on screen with a unit of
\* another row, which shows fewer likes.
C16_Witness ==
  \E a, b \in DOMAIN unit :
    /\ unit[a].isLiked /\ unit[a].currentLikes = MostLikes + 1
    /\ unit[a].currentScale > 180
    /\ unit[b].currentLikes < unit[a].currentLikes

\* C17: at most one normal drain (the pre-drain timer of the auto-play
\* effect or a continuation timer that descends from it) is pending at any
\* moment, however setComments calls fall, and no comment is released twice
\* between two resets of the played set.
NormalDrains == {tm \in timers : tm.origin = "normal"}
RestartDrains == {tm \in timers : tm.origin = "restart" /\ tm.kind \in {"rdrain", "batch"}}

C17_OneNormalDrain ==
  mounted => /\ Cardinality(NormalDrains) <= 1
             /\ \A c \in CommentIds(comments) : relCount[c] <= 1

\* C18: a restart drain (its restart-drain timer or a continuation timer that
\* descends from it) and a normal drain are never pending together.
C18_DrainsExclusive == mounted => (NormalDrains = {} \/ RestartDrains = {})

\* C19: a restart timer is armed only by a unit completion that leaves the
\* pool empty while the played set, as it is at that moment, has at least as
\* many ids as the comment set and no restart is scheduled; and the played
\* set is not reset while a comment of non-empty text has not been released
\* since the played set was last empty (every comment has an id).
ArmStep ==
  \/ ~isRestarting /\ isRestarting'
  \/ \E tm \in timers' \ timers : tm.kind = "restart" /\ tm.t = Ticks(RestartMs)

C19_RestartOnlyWhenAllPlayed ==
  [][NoId \notin CommentIds(comments) =>
       /\ ArmStep => /\ Completed
                     /\ activeDanmaku' = <<>>
                     /\ Cardinality(playedCommentIds) >= Len(comments)
                     /\ ~RestartPending
       /\ ResetStep => \A c \in ValidIn(comments) : relCount[c] >= 1]_vars

\* C20: a run of playNextBatch releases at most maxConcurrent less the
\* number of entries the pool holds when the run starts, and none when the
\* pool holds more than that (every comment has an id).
C20_ReleaseWithinRoom == NoId \notin CommentIds(comments) => ~overRelease

\* C21: a run of playNextBatch releases the first k comments of its list, in
\* the list's order and with k the least of the room in the pool
\* (maxConcurrent less the entries the pool holds), the length of the list
\* and the per-run cap; it adds the ids of just those k comments to the
\* played set, and hands the rest of the list, in the same order, to one
\* continuation timer, or to none when nothing is left.
Fired(tm) ==
  /\ mounted /\ mounted' /\ nSet' = nSet
  /\ tm.kind \in {"auto", "rdrain", "batch"} /\ tm.t = 0 /\ tm \notin timers'

C21_BatchIsListPrefix ==
  [][\A tm \in timers : Fired(tm) /\ NoId \notin CommentIds(comments) =>
       LET k == Len(activeDanmaku') - Len(activeDanmaku) IN
         /\ k >= 0 /\ k <= Len(tm.list)
         /\ SubSeq(activeDanmaku', 1, Len(activeDanmaku)) = activeDanmaku
         /\ \A i \in 1..k :
              /\ activeDanmaku'[Len(activeDanmaku) + i].commentId = tm.list[i].id
              /\ activeDanmaku'[Len(activeDanmaku) + i].text = Trim(tm.list[i].text.s)
         /\ playedCommentIds' = playedCommentIds \cup {tm.list[i].id : i \in 1..k}
         /\ IF k < Len(tm.list)
            THEN \E tc \in timers' \ timers :
                   /\ tc.kind = "batch" /\ tc.list = SubSeq(tm.list, k + 1, Len(tm.list))
                   /\ timers' = (timers \ {tm}) \cup {tc}
            ELSE timers' = timers \ {tm}
         /\ ~wrongBatch']_vars

\* C22: a drain never reaches a continuation that can release nothing.  A
\* continuation timer keeps the closure of the run that armed it, so one
\* whose captured pool length leaves no room under any draw of
\* maxConcurrent releases nothing and arms itself again on every run: the
\* drain then never releases its remaining comments and never stops
\* scheduling.
Doomed(tm) ==
  /\ tm.kind = "batch" /\ tm.list # <<>>
  /\ \A mc \in MaxConcurrentChoices : ToPlayNow(mc, tm.stale, Len(tm.list)) = 0

C22_DrainTerminates ==
  NoId \notin CommentIds(comments) => \A tm \in timers : ~Doomed(tm)

\* C23: the likes count the store holds for a comment never decreases,
\* whatever the interleaving of the gets and updates of the like operations
\* that this page and other browsers run on the comment.
C23_LikesNeverDecrease ==
  [][\A c \in CommentIds(store) \ {NoId} : LikesOf(store', c) >= LikesOf(store, c)]_vars

\* C24: within one drain, a comment created more than the comparator's
\* random variance (JitterMs) after another one is never released before
\* it: a run of playNextBatch leaves no comment for its continuation that
\* is more than JitterMs older than a comment the run releases.
C24_OrderWithinJitter ==
  [][\A tm \in timers : Fired(tm) =>
       LET k == Len(activeDanmaku') - Len(activeDanmaku) IN
         \A i \in 1..k : \A j \in (k + 1)..Len(tm.list) :
           tm.list[i].createdAt - tm.list[j].createdAt <= JitterMs]_vars

\* C26: the entries of the pool carry pairwise distinct ids at all times,
\* and a finished unit's onComplete removes exactly the one entry of that
\* unit, the other entries and their order staying as they are.
DistinctIds(pool) ==
  \A i, j \in 1..Len(pool) : i # j => IdOf(pool[i]) # IdOf(pool[j])

C26_DistinctDisplayIds ==
  [][/\ DistinctIds(activeDanmaku')
     /\ Completed =>
          \E i \in 1..Len(activeDanmaku) :
            /\ IsDue(activeDanmaku[i].id)
            /\ activeDanmaku' = Without(activeDanmaku, i)]_vars

\* C25: an entry leaves the pool only through the completion of its own
\* traversal: in the step that removes it, the animation of its own unit is
\* running and has reached its end, so that the unit's onfinish and
\* onComplete run; no unit is taken away while it is still crossing the
\* screen or while it is paused under the pointer.
Leaves(e) == \A x \in SeqToSet(activeDanmaku') : x.id # e.id

C25_LeavesByOwnCompletion ==
  [][\A e \in SeqToSet(activeDanmaku) : Leaves(e) => IsDue(e.id)]_vars

\* C27: when the create call of a submission fails, no unit is injected,
\* the page's comment list and the typed input stay as they are and loading
\* ends, so that the form accepts a submission again; when it succeeds,
\* exactly one unit is added at the end of the pool, with the trimmed text
\* that was typed and no comment id, the input is emptied and loading ends.
CreateFails == createPending # NoText /\ createPending' = NoText /\ store' = store
CreateSucceeds == createPending # NoText /\ Len(store') = Len(store) + 1

C27_CreateOutcome ==
  [][/\ CreateFails =>
          /\ activeDanmaku' = activeDanmaku
          /\ appComments' = appComments
          /\ inputValue' = inputValue
          /\ ~loading' /\ userId'
     /\ CreateSucceeds =>
          /\ Len(activeDanmaku') = Len(activeDanmaku) + 1
          /\ SubSeq(activeDanmaku', 1, Len(activeDanmaku)) = activeDanmaku
          /\ activeDanmaku'[Len(activeDanmaku') ].text = Trim(inputValue.s)
          /\ activeDanmaku'[Len(activeDanmaku') ].commentId = NoId
          /\ inputValue' = Str(<<>>)
          /\ ~loading']_vars

\* Both submit events are used, one create call succeeded and the other
\* failed with the typed text still in the input.
C27_Witness ==
  /\ submitsLeft = 0 /\ createPending = NoText /\ ~loading /\ ~blockedSubmit
  /\ Len(store) = MaxComments + 1
  /\ Trim(inputValue.s) # <<>>

\* C28: at most one create call is in flight, and a submit event that
\* arrives while a create call has not settled, with an input that is blank
\* after trimming, or before there is a userId calls nothing and changes
\* nothing: no store call, no unit, no state of the page or the scheduler.
SubmitStep == submitsLeft' < submitsLeft
Blocked == loading \/ Trim(inputValue.s) = <<>> \/ ~userId

C28_OneSubmissionInFlight ==
  [][/\ inFlight' <= 1
     /\ (SubmitStep /\ Blocked) =>
          UNCHANGED <<schedVars, likeVars, store, userId, appComments, inputValue,
                      loading, createPending, inFlight>>]_vars

\* A submit event arrived while a create call was in flight, and that call
\* is still the only one.
C28_Witness == blockedSubmit /\ inFlight = 1 /\ createPending # NoText /\ loading

\* C29: at most one restart timer is pending at any time, the restarting
\* flag is true for as long as a restart timer is pending, and the only
\* step that takes the flag back is the one in which the restart timer
\* fires and the restart drain is armed; in particular the cleanup that
\* runs when the comment set changes leaves the flag alone.
RestartTimers(ts) == {tm \in ts : tm.kind = "restart"}

C29_RestartFlagHeld ==
  [][/\ Cardinality(RestartTimers(timers')) <= 1
     /\ RestartTimers(timers') # {} => isRestarting'
     /\ (RestartTimers(timers) # {} /\ isRestarting /\ ~isRestarting') => ResetStep]_vars

\* C30: a click on the like control of a unit that has no comment id (a
\* manual unit, or the unit of a row without id) does nothing: the unit's
\* count, liked flag and scale, the liked list in localStorage, the store
\* and the scheduler stay as they are, and no like request is started.
C30_NullCommentLikeIsNoOp ==
  [][(ClickStep /\ Entry(hovered).commentId = NoId) =>
       UNCHANGED <<unit, likedStorage, likeRequests, likeOps, store, schedVars>>]_vars

\* The one unit the pointer entered has no comment id and was clicked, and
\* nothing was ever liked.
C30_Witness ==
  /\ hovered \in DOMAIN unit /\ Entry(hovered).commentId = NoId
  /\ clicksLeft < MaxClicks
  /\ likedStorage = <<>> /\ likeOps = <<>>
  /\ ~unit[hovered].isLiked

====
